---- MODULE Spec2Model ----
(***************************************************************************)
(* A model of ai_commit.py: one run of main(), from the parsed arguments   *)
(* to the process exit.  Strings are sequences of characters; a character  *)
(* is a one-element TLA+ string, except the two curly double quotes, which *)
(* are the atoms "u201C" and "u201D".                                      *)
(***************************************************************************)
EXTENDS Integers, Sequences, FiniteSets, TLC

\* ------------------------------------------------------------ characters

NL == "\n"
CR == "\r"
FF == "\f"
SP == " "
HT == "\t"
DQ == "\""
SQ == "'"
LDQ == "u201C"
RDQ == "u201D"

\* The boundaries str.splitlines() splits on (those of the model's alphabet).
LineBreaks == {NL, CR, FF}

\* The characters str.strip() removes with no argument.
Whitespace == {SP, HT, NL, CR, FF}

\* str.lower(), one character at a time.
LowerChar(c) ==
    CASE c = "T" -> "t"
      [] c = "K" -> "k"
      [] c = "E" -> "e"
      [] c = "N" -> "n"
      [] c = "V" -> "v"
      [] OTHER -> c

lower(s) == [i \in 1..Len(s) |-> LowerChar(s[i])]

\* ------------------------------------------------------- str operations

startswith(s, p) == Len(s) >= Len(p) /\ SubSeq(s, 1, Len(p)) = p

\* p in s
contains(s, p) ==
    \E i \in 1..(Len(s) - Len(p) + 1) : SubSeq(s, i, i + Len(p) - 1) = p

\* s[:n] for n >= 0
Take(s, n) == SubSeq(s, 1, IF n < Len(s) THEN n ELSE Len(s))

RECURSIVE lstripChars(_, _)
lstripChars(s, cs) ==
    IF s # <<>> /\ Head(s) \in cs THEN lstripChars(Tail(s), cs) ELSE s

RECURSIVE rstripChars(_, _)
rstripChars(s, cs) ==
    IF s # <<>> /\ s[Len(s)] \in cs
    THEN rstripChars(SubSeq(s, 1, Len(s) - 1), cs)
    ELSE s

\* s.strip(chars)
stripChars(s, cs) == rstripChars(lstripChars(s, cs), cs)

\* s.strip()
strip(s) == stripChars(s, Whitespace)

\* The index of the first line boundary of s, Len(s) + 1 when it has none.
RECURSIVE FirstBreak(_, _)
FirstBreak(s, i) ==
    IF i > Len(s) \/ s[i] \in LineBreaks THEN i ELSE FirstBreak(s, i + 1)

\* s.splitlines(): "\r\n" is one boundary, and a final boundary opens no
\* empty last line.
RECURSIVE splitlines(_)
splitlines(s) ==
    IF s = <<>> THEN <<>>
    ELSE LET i == FirstBreak(s, 1)
             j == IF i < Len(s) /\ s[i] = CR /\ s[i + 1] = NL THEN i + 1 ELSE i
         IN  IF i > Len(s) THEN <<s>>
             ELSE <<SubSeq(s, 1, i - 1)>> \o splitlines(SubSeq(s, j + 1, Len(s)))

\* sep.join(parts)
RECURSIVE join(_, _)
join(sep, parts) ==
    IF parts = <<>> THEN <<>>
    ELSE IF Len(parts) = 1 THEN parts[1]
    ELSE parts[1] \o sep \o join(sep, Tail(parts))

\* The sequences over S of length at most n.
SeqsUpTo(S, n) == UNION {[1..k -> S] : k \in 0..n}


\* ---------------------------------------------------- strip_sensitive_lines

KW_API_KEY == <<"a", "p", "i", "_", "k", "e", "y">>
KW_APIKEY == <<"a", "p", "i", "k", "e", "y">>
KW_SECRET == <<"s", "e", "c", "r", "e", "t">>
KW_TOKEN == <<"t", "o", "k", "e", "n">>
DOT_ENV == <<".", "e", "n", "v">>

\* The first test of the loop: the line is skipped.
IsSecretLine(line) ==
    LET low == lower(line)
    IN  /\ \/ contains(low, KW_API_KEY)
           \/ contains(low, KW_APIKEY)
           \/ contains(low, KW_SECRET)
           \/ contains(low, KW_TOKEN)
        /\ startswith(line, <<"+">>)

\* The second test of the loop: the line is skipped.
IsEnvHeaderLine(line) ==
    /\ contains(lower(line), DOT_ENV)
    /\ \/ startswith(line, <<"+", "+", "+">>)
       \/ startswith(line, <<"-", "-", "-">>)

IsFiltered(line) == ~IsSecretLine(line) /\ ~IsEnvHeaderLine(line)

strip_sensitive_lines(d) == join(<<NL>>, SelectSeq(splitlines(d), IsFiltered))

\* ------------------------------------------------------------- call_gemini

\* What a call returns to main: a text, or the exception it raised.
Returned(text) == [ok |-> TRUE, text |-> text, error |-> "none"]
Raised(error) == [ok |-> FALSE, text |-> <<>>, error |-> error]

\* The texts of the parts that are dicts with a "text" key, over all candidates.
RECURSIVE PartTexts(_)
PartTexts(parts) ==
    IF parts = <<>> THEN <<>>
    ELSE (IF Head(parts).isText THEN <<Head(parts).text>> ELSE <<>>)
         \o PartTexts(Tail(parts))

RECURSIVE CandidateTexts(_)
CandidateTexts(cands) ==
    IF cands = <<>> THEN <<>>
    ELSE PartTexts(Head(cands)) \o CandidateTexts(Tail(cands))

\* resp: what generate_content gave.  raises: the import, the configuration
\* or the request failed; candidates: one sequence of parts per candidate;
\* text: the direct text accessor (<<>> for None and for "").
call_gemini(resp) ==
    IF resp.raises THEN Raised("api")
    ELSE IF resp.candidates = <<>> THEN Raised("blocked")
    ELSE LET text == IF resp.text # <<>> THEN resp.text
                     ELSE strip(join(<<NL>>, CandidateTexts(resp.candidates)))
         IN  IF text = <<>> THEN Raised("empty") ELSE Returned(strip(text))

\* --------------------------------------------------- main, lines 140 to 146

TRUNCATED_SUFFIX ==
    <<" ", "(", "t", "r", "u", "n", "c", "a", "t", "e", "d", " ",
      "d", "i", "f", "f", ")">>

\* Lines 140 and 141: the message that is printed as the suggestion.
postprocess(text, trunc) ==
    LET m == IF trunc THEN text \o TRUNCATED_SUFFIX ELSE text
    IN  stripChars(stripChars(strip(join(<<SP>>, splitlines(m))), {DQ}), {SQ})

\* Line 146 without its strip().
normalize_final_nostrip(text) == join(<<SP>>, splitlines(text))

\* Line 146.
normalize_final(text) == strip(join(<<SP>>, splitlines(text)))


\* ------------------------------------------------------------------ bounds

\* Lines of a diff the external tool prints.
MaxLines == 2
\* Characters of a text the remote model answers with.
MaxText == 2
\* Parts of one candidate of a response.
MaxParts == 2
\* The small values of AICOMMIT_MAX_DIFF_CHARS, 0 to MaxCap.
MaxCap == 2

\* ------------------------------------------------------------------ inputs

\* The default of line 8.
DEFAULT_MAX_DIFF_CHARS == 40000

CapValues == (0..MaxCap) \cup {DEFAULT_MAX_DIFF_CHARS}

DiffLineSet ==
    { <<"+", "a">>,
      <<"+", "t", "o", "k", "e", "n">>,
      <<"+", "T", "o", "k", "e", "n">>,
      <<"-", "t", "o", "k", "e", "n">>,
      <<"+", "+", "+", " ", "b", "/", ".", "e", "n", "v">>,
      <<"-", " ", ".", "e", "n", "v">>,
      <<"+", "a", FF, "t", "o", "k", "e", "n">> }

RECURSIVE Terminated(_)
Terminated(lines) ==
    IF lines = <<>> THEN <<>> ELSE Head(lines) \o <<NL>> \o Terminated(Tail(lines))

\* What the diff command can print: nothing, white space only, or lines each
\* ended by a newline.
RawDiffs == {Terminated(ls) : ls \in SeqsUpTo(DiffLineSet, MaxLines)} \cup {<<NL>>}

TextChars == {"a", SP, NL, DQ}

Texts ==
    SeqsUpTo(TextChars, MaxText)
    \cup { <<DQ, "a", DQ>>, <<SQ, "a", SQ>>, <<LDQ, "a", RDQ>>,
           <<DQ, SQ, "a", SQ, DQ>>, <<DQ, SP, "a", DQ>> }

PartSet ==
    { [isText |-> TRUE, text |-> <<"a">>],
      [isText |-> TRUE, text |-> <<SP>>],
      [isText |-> FALSE, text |-> <<>>] }

CandidateLists ==
    {<<ps>> : ps \in SeqsUpTo(PartSet, MaxParts)}
    \cup {<<ps, qs>> : ps \in SeqsUpTo(PartSet, 1), qs \in SeqsUpTo(PartSet, 1)}

Responses ==
    { [raises |-> TRUE, candidates |-> <<>>, text |-> <<>>],
      [raises |-> FALSE, candidates |-> <<>>, text |-> <<>>] }
    \cup {[raises |-> FALSE, candidates |-> << <<>> >>, text |-> t] : t \in Texts}
    \cup {[raises |-> FALSE, candidates |-> c, text |-> <<>>] : c \in CandidateLists}

\* What the editor can leave in the file, besides leaving it as it is.
EditSet == { <<>>, <<NL>>, <<"b">>, <<SP, "b", NL>>, <<"b", NL, "c">> }

\* os.getenv(name): None when the variable is not set, its value otherwise.
None == [set |-> FALSE, value |-> <<>>]
Value(v) == [set |-> TRUE, value |-> v]

\* Python's truth of an optional string: neither None nor "".
truthy(v) == v.set /\ v.value # <<>>

\* ------------------------------------------------------------------- state

VARIABLES
    args,            \* the parsed arguments (line 114)
    env,             \* the environment: GOOGLE_API_KEY, EDITOR, VISUAL
    MAX_DIFF_CHARS,  \* line 8
    pc,              \* the statement of main (or of editor_edit) to run next
    staged_names,    \* what the staged-file listing of line 119 gave
    diff, truncated, prompt, message, final_msg,   \* main's locals
    tmp,             \* editor_edit's temporary file
    calls,           \* the external invocations made, in order
    commits,         \* the git commit invocations: the message given, the outcome
    out, err,        \* what was printed on each stream
    exit             \* <<>> while running, <<status>> once exited

vars == <<args, env, MAX_DIFF_CHARS, pc, staged_names, diff, truncated, prompt,
          message, final_msg, tmp, calls, commits, out, err, exit>>

Init ==
    /\ args \in [unstaged : BOOLEAN, no_edit : BOOLEAN, print_only : BOOLEAN,
                 ctype : {"chore", "feat"}, lang : {"pt-BR"}, model : {"gemini-1.5-flash"}]
    /\ env \in [GOOGLE_API_KEY : {None, Value(<<>>), Value(<<"k">>)},
                EDITOR : {None, Value(<<"v", "i">>)},
                VISUAL : {None, Value(<<"v", "i">>)}]
    /\ MAX_DIFF_CHARS \in CapValues
    /\ pc = "get_repo_root"
    /\ staged_names = "unknown"
    /\ diff = <<>>
    /\ truncated = FALSE
    /\ prompt = [lang |-> "", commit_type |-> "", diff |-> <<>>]
    /\ message = <<>>
    /\ final_msg = <<>>
    /\ tmp = [state |-> "none", content |-> <<>>]
    /\ calls = <<>>
    /\ commits = <<>>
    /\ out = <<>>
    /\ err = <<>>
    /\ exit = <<>>

\* sys.exit(code) after a diagnostic on the error stream; an exception nothing
\* catches ends the process the same way, with status 1 and a traceback.
Exit(code, diagnostic) ==
    /\ pc' = "exited"
    /\ exit' = <<code>>
    /\ err' = IF diagnostic = "" THEN err ELSE Append(err, diagnostic)


\* ------------------------------------------------------------------- main

\* Line 116, get_repo_root.
GetRepoRoot ==
    /\ pc = "get_repo_root"
    /\ calls' = Append(calls, "git rev-parse")
    /\ \/ /\ pc' = "check_staged"
          /\ UNCHANGED <<exit, err>>
       \/ Exit(1, "not a repository")
    /\ UNCHANGED <<args, env, MAX_DIFF_CHARS, staged_names, diff, truncated,
                   prompt, message, final_msg, tmp, commits, out>>

\* Lines 118 to 121: the notice changes nothing else; the listing is run with
\* check=True and its failure is caught nowhere.
CheckStaged ==
    /\ pc = "check_staged"
    /\ IF args.unstaged
       THEN /\ pc' = "get_diff"
            /\ UNCHANGED <<staged_names, calls, out, exit, err>>
       ELSE /\ calls' = Append(calls, "git diff --name-only")
            /\ \/ /\ staged_names' = "some"
                  /\ pc' = "get_diff"
                  /\ UNCHANGED <<out, exit, err>>
               \/ /\ staged_names' = "none"
                  /\ out' = Append(out, <<"nothing staged", <<>>>>)
                  /\ pc' = "get_diff"
                  /\ UNCHANGED <<exit, err>>
               \/ /\ Exit(1, "traceback")
                  /\ UNCHANGED <<staged_names, out>>
    /\ UNCHANGED <<args, env, MAX_DIFF_CHARS, diff, truncated, prompt, message,
                   final_msg, tmp, commits>>

\* Line 123, get_diff.  With nothing staged the staged diff is empty.
GetDiff ==
    /\ pc = "get_diff"
    /\ calls' = Append(calls, "git diff")
    /\ \/ /\ \E d \in RawDiffs :
                /\ staged_names = "none" => d = <<>>
                /\ staged_names = "some" => d # <<>>
                /\ diff' = d
          /\ pc' = "check_diff"
          /\ UNCHANGED <<exit, err>>
       \/ /\ Exit(1, "diff failed")
          /\ UNCHANGED diff
    /\ UNCHANGED <<args, env, MAX_DIFF_CHARS, staged_names, truncated, prompt,
                   message, final_msg, tmp, commits, out>>

\* The test of line 124 without its strip().
is_empty_diff_nostrip(d) == d = <<>>

\* The test of line 124.
is_empty_diff(d) == strip(d) = <<>>

\* Lines 124 and 125.
CheckDiff ==
    /\ pc = "check_diff"
    /\ IF is_empty_diff(diff)
       THEN Exit(1, "empty diff")
       ELSE pc' = "strip_sensitive_lines" /\ UNCHANGED <<exit, err>>
    /\ UNCHANGED <<args, env, MAX_DIFF_CHARS, staged_names, diff, truncated,
                   prompt, message, final_msg, tmp, calls, commits, out>>

\* Line 127.
StripSensitiveLines ==
    /\ pc = "strip_sensitive_lines"
    /\ diff' = strip_sensitive_lines(diff)
    /\ pc' = "cap"
    /\ UNCHANGED <<args, env, MAX_DIFF_CHARS, staged_names, truncated, prompt,
                   message, final_msg, tmp, calls, commits, out, err, exit>>

\* Lines 129 and 130 with >= for >.
cap_offbyone(d, maxChars) ==
    IF Len(d) >= maxChars
    THEN [diff |-> Take(d, maxChars), truncated |-> TRUE]
    ELSE [diff |-> d, truncated |-> FALSE]

\* Lines 129 and 130: the capped diff and the flag.
cap(d, maxChars) ==
    IF Len(d) > maxChars
    THEN [diff |-> Take(d, maxChars), truncated |-> TRUE]
    ELSE [diff |-> d, truncated |-> FALSE]

\* Line 132.
format_prompt(lang, commit_type, d) ==
    [lang |-> lang, commit_type |-> commit_type, diff |-> d]

\* Lines 128 to 132.
CapAndPrompt ==
    /\ pc = "cap"
    /\ LET c == cap(diff, MAX_DIFF_CHARS)
       IN  /\ diff' = c.diff
           /\ truncated' = c.truncated
           /\ prompt' = format_prompt(args.lang, args.ctype, c.diff)
    /\ pc' = "ensure_gemini_key"
    /\ UNCHANGED <<args, env, MAX_DIFF_CHARS, staged_names, message, final_msg,
                   tmp, calls, commits, out, err, exit>>

\* The test of line 80 as a test for None only.
has_gemini_key_isset(e) == e.GOOGLE_API_KEY.set

\* The test of line 80.
has_gemini_key(e) == truthy(e.GOOGLE_API_KEY)

\* Line 134, ensure_gemini_key.
EnsureGeminiKey ==
    /\ pc = "ensure_gemini_key"
    /\ IF ~has_gemini_key(env)
       THEN Exit(1, "missing credential")
       ELSE pc' = "call_gemini" /\ UNCHANGED <<exit, err>>
    /\ UNCHANGED <<args, env, MAX_DIFF_CHARS, staged_names, diff, truncated,
                   prompt, message, final_msg, tmp, calls, commits, out>>

\* Lines 135 to 138.
CallGemini ==
    /\ pc = "call_gemini"
    /\ calls' = Append(calls, "gemini")
    /\ \E resp \in Responses :
          LET r == call_gemini(resp)
          IN  IF r.ok
              THEN /\ message' = r.text
                   /\ pc' = "postprocess"
                   /\ UNCHANGED <<exit, err>>
              ELSE /\ Exit(1, "gemini error")
                   /\ UNCHANGED message
    /\ UNCHANGED <<args, env, MAX_DIFF_CHARS, staged_names, diff, truncated,
                   prompt, final_msg, tmp, commits, out>>

\* Lines 140 to 143.
PostProcess ==
    /\ pc = "postprocess"
    /\ message' = postprocess(message, truncated)
    /\ out' = Append(out, <<"suggested", message'>>)
    /\ pc' = "edit"
    /\ UNCHANGED <<args, env, MAX_DIFF_CHARS, staged_names, diff, truncated,
                   prompt, final_msg, tmp, calls, commits, err, exit>>

\* os.getenv("EDITOR") or os.getenv("VISUAL")
editor == IF truthy(env.EDITOR) THEN env.EDITOR ELSE env.VISUAL

\* Line 145, and lines 67 and 68 of editor_edit.
Edit ==
    /\ pc = "edit"
    /\ IF args.no_edit \/ ~truthy(editor)
       THEN final_msg' = message /\ pc' = "finalize"
       ELSE pc' = "editor_tempfile" /\ UNCHANGED final_msg
    /\ UNCHANGED <<args, env, MAX_DIFF_CHARS, staged_names, diff, truncated,
                   prompt, message, tmp, calls, commits, out, err, exit>>

\* Lines 69 and 70 of editor_edit: the file is created with delete=False, and
\* the with block closes it; the try of line 71 is not entered yet.
EditorTempfile ==
    /\ pc = "editor_tempfile"
    /\ \/ /\ tmp' = [state |-> "present", content |-> message]
          /\ pc' = "editor_run"
          /\ UNCHANGED <<exit, err>>
       \/ \* NamedTemporaryFile raises: no file
          /\ Exit(1, "traceback")
          /\ UNCHANGED tmp
       \/ \* write or flush raises: the file stays
          /\ tmp' = [state |-> "present", content |-> <<>>]
          /\ Exit(1, "traceback")
    /\ UNCHANGED <<args, env, MAX_DIFF_CHARS, staged_names, diff, truncated,
                   prompt, message, final_msg, calls, commits, out>>

\* Line 72 of editor_edit, with the finally of lines 75 to 77 when the editor
\* cannot be started.
EditorRun ==
    /\ pc = "editor_run"
    /\ calls' = Append(calls, "editor")
    /\ \/ /\ \E c \in EditSet \cup {tmp.content} :
                tmp' = [tmp EXCEPT !.content = c]
          /\ pc' = "editor_read"
          /\ UNCHANGED <<exit, err>>
       \/ /\ tmp' = [tmp EXCEPT !.state = "removed"]
          /\ Exit(1, "traceback")
    /\ UNCHANGED <<args, env, MAX_DIFF_CHARS, staged_names, diff, truncated,
                   prompt, message, final_msg, commits, out>>

\* Lines 73 to 77 of editor_edit: the read-back, then the finally.
EditorRead ==
    /\ pc = "editor_read"
    /\ tmp' = [tmp EXCEPT !.state = "removed"]
    /\ \/ /\ final_msg' = strip(tmp.content)
          /\ pc' = "finalize"
          /\ UNCHANGED <<exit, err>>
       \/ /\ Exit(1, "traceback")
          /\ UNCHANGED final_msg
    /\ UNCHANGED <<args, env, MAX_DIFF_CHARS, staged_names, diff, truncated,
                   prompt, message, calls, commits, out>>

\* Lines 146 to 151 without the test of line 150.
Finalize_NoPrintOnly ==
    /\ pc = "finalize"
    /\ final_msg' = normalize_final(final_msg)
    /\ IF final_msg' = <<>>
       THEN Exit(1, "empty message")
       ELSE pc' = "commit" /\ UNCHANGED <<exit, err>>
    /\ UNCHANGED <<args, env, MAX_DIFF_CHARS, staged_names, diff, truncated,
                   prompt, message, tmp, calls, commits, out>>

\* Lines 146 to 151.
Finalize ==
    /\ pc = "finalize"
    /\ final_msg' = normalize_final(final_msg)
    /\ IF final_msg' = <<>>
       THEN Exit(1, "empty message") /\ UNCHANGED out
       ELSE IF args.print_only
       THEN out' = Append(out, <<"final", final_msg'>>) /\ Exit(0, "")
       ELSE pc' = "commit" /\ UNCHANGED <<out, exit, err>>
    /\ UNCHANGED <<args, env, MAX_DIFF_CHARS, staged_names, diff, truncated,
                   prompt, message, tmp, calls, commits>>

\* Lines 153 to 158 without the sys.exit(1) of line 158.
Commit_NoExitOnFailure ==
    /\ pc = "commit"
    /\ calls' = Append(calls, "git commit")
    /\ \/ /\ commits' = Append(commits, [message |-> final_msg, ok |-> TRUE])
          /\ out' = Append(out, <<"commit done", final_msg>>)
          /\ Exit(0, "")
       \/ /\ commits' = Append(commits, [message |-> final_msg, ok |-> FALSE])
          /\ Exit(0, "commit failed")
          /\ UNCHANGED out
    /\ UNCHANGED <<args, env, MAX_DIFF_CHARS, staged_names, diff, truncated,
                   prompt, message, final_msg, tmp>>

\* Lines 153 to 158.
Commit ==
    /\ pc = "commit"
    /\ calls' = Append(calls, "git commit")
    /\ \/ /\ commits' = Append(commits, [message |-> final_msg, ok |-> TRUE])
          /\ out' = Append(out, <<"commit done", final_msg>>)
          /\ Exit(0, "")
       \/ /\ commits' = Append(commits, [message |-> final_msg, ok |-> FALSE])
          /\ Exit(1, "commit failed")
          /\ UNCHANGED out
    /\ UNCHANGED <<args, env, MAX_DIFF_CHARS, staged_names, diff, truncated,
                   prompt, message, final_msg, tmp>>

Next ==
    \/ GetRepoRoot
    \/ CheckStaged
    \/ GetDiff
    \/ CheckDiff
    \/ StripSensitiveLines
    \/ CapAndPrompt
    \/ EnsureGeminiKey
    \/ CallGemini
    \/ PostProcess
    \/ Edit
    \/ EditorTempfile
    \/ EditorRun
    \/ EditorRead
    \/ Finalize
    \/ Commit

Spec == Init /\ [][Next]_vars


\* ------------------------------------------------------------ observations

Invoked(c) == \E i \in DOMAIN calls : calls[i] = c
Count(c) == Cardinality({i \in DOMAIN calls : calls[i] = c})
Printed(tag, text) == \E i \in DOMAIN out : out[i] = <<tag, text>>
Diagnosed(d) == \E i \in DOMAIN err : err[i] = d
Running == pc # "exited"

\* The statements of main after ensure_gemini_key returned.
AfterKey ==
    {"call_gemini", "postprocess", "edit", "editor_tempfile", "editor_run",
     "editor_read", "finalize", "commit"}

\* ------------------------------------------------------------------ claims

\* C1: a run whose retrieved diff is empty or white space only exits with
\* status 1 in its next step, and has invoked neither the remote call nor
\* git commit, before or at that step; an exited run takes no further step.
C1_EmptyDiffExits ==
    /\ [][(pc = "check_diff" /\ strip(diff) = <<>>)
            => /\ pc' = "exited"
               /\ exit' = <<1>>
               /\ ~Invoked("gemini")' /\ ~Invoked("git commit")'
               /\ commits' = <<>>]_vars
    /\ [][pc = "exited" => FALSE]_vars

C1_Witness ==
    /\ pc = "exited" /\ exit = <<1>>
    /\ Invoked("git diff") /\ diff = <<NL>>
    /\ Diagnosed("empty diff")

\* C2: in a run started with --print-only, git commit is never invoked.
C2_PrintOnlyNeverCommits ==
    args.print_only => ~Invoked("git commit") /\ commits = <<>> /\ pc # "commit"

C2_Witness ==
    /\ args.print_only /\ pc = "exited" /\ exit = <<0>>
    /\ Printed("final", final_msg)
    /\ args.unstaged /\ ~args.no_edit /\ args.ctype = "feat"

\* C3: in a run where GOOGLE_API_KEY is absent or empty, the remote call and
\* git commit are never invoked, the run never gets past ensure_gemini_key,
\* and when it has exited its status is 1 and the error stream holds a
\* diagnostic.
C3_NoKeyNoRemoteCall ==
    ~truthy(env.GOOGLE_API_KEY)
        => /\ ~Invoked("gemini") /\ ~Invoked("git commit") /\ commits = <<>>
           /\ pc \notin AfterKey
           /\ pc = "exited" => exit = <<1>> /\ err # <<>>

C3_Witness ==
    /\ env.GOOGLE_API_KEY = Value(<<>>)
    /\ pc = "exited" /\ exit = <<1>> /\ Diagnosed("missing credential")

\* The diagnostics of the seven failures the exit codes list.
FailureCases ==
    {"not a repository", "diff failed", "empty diff", "missing credential",
     "gemini error", "empty message", "commit failed"}

\* C4: an exited run has status 0 or 1; it has status 0 exactly when the final
\* message was printed and, unless --print-only, git commit was invoked and
\* succeeded; each of the seven failures gives status 1; and no external step
\* was invoked twice.
C4_ExitStatus ==
    /\ pc = "exited" =>
          /\ exit \in {<<0>>, <<1>>}
          /\ exit = <<0>> <=>
                /\ \/ Printed("final", final_msg)
                   \/ Printed("commit done", final_msg)
                /\ \/ args.print_only
                   \/ /\ Len(commits) = 1
                      /\ commits[1].ok
                      /\ commits[1].message = final_msg
          /\ \A d \in FailureCases : Diagnosed(d) => exit = <<1>>
    /\ \A f \in FailureCases : Diagnosed(f) => pc = "exited"
    /\ \A c \in {"git rev-parse", "git diff --name-only", "git diff", "gemini",
                 "editor", "git commit"} : Count(c) <= 1
    /\ Len(commits) <= 1

C4_Witness ==
    /\ pc = "exited" /\ exit = <<0>> /\ ~args.print_only
    /\ Len(commits) = 1 /\ commits[1].ok
    /\ Printed("commit done", final_msg)

\* C6: the cap step leaves, for a diff longer than MAX_DIFF_CHARS, its first
\* MAX_DIFF_CHARS characters (exactly that many) and sets the flag; it leaves
\* any other diff unchanged and the flag unset; the prompt embeds that diff.
C6_Cap ==
    [][pc = "cap"
         => /\ IF Len(diff) > MAX_DIFF_CHARS
               THEN /\ Len(diff') = MAX_DIFF_CHARS
                    /\ \A i \in 1..MAX_DIFF_CHARS : diff'[i] = diff[i]
                    /\ truncated'
               ELSE /\ diff' = diff
                    /\ ~truncated'
            /\ prompt'.diff = diff']_vars

C6_Witness ==
    /\ pc = "ensure_gemini_key"
    /\ truncated /\ MAX_DIFF_CHARS = 2 /\ diff = <<"+", "a">>

\* C10: git commit is invoked at most once, only with a non-empty message that
\* holds no line break and neither starts nor ends with white space, and only
\* after the remote call returned successfully.
C10_CommitMessage ==
    /\ Len(commits) <= 1
    /\ Count("git commit") = Len(commits)
    /\ \A i \in DOMAIN commits :
          LET m == commits[i].message
          IN  /\ m # <<>>
              /\ \A k \in DOMAIN m : m[k] \notin LineBreaks
              /\ m[1] \notin Whitespace
              /\ m[Len(m)] \notin Whitespace
    /\ Invoked("git commit")
          => /\ ~Diagnosed("gemini error")
             /\ \E i, j \in DOMAIN calls :
                   i < j /\ calls[i] = "gemini" /\ calls[j] = "git commit"

C10_Witness ==
    /\ Len(commits) = 1
    /\ commits[1].message = <<"b", SP, "c">>
    /\ tmp.state = "removed"


\* The lines of a unified diff: each ended by a newline, the last one
\* possibly not.
RECURSIVE DiffLines(_)
DiffLines(s) ==
    IF s = <<>> THEN <<>>
    ELSE LET i == CHOOSE k \in 1..(Len(s) + 1) :
                     /\ k > Len(s) \/ s[k] = NL
                     /\ \A j \in 1..(k - 1) : s[j] # NL
         IN  IF i > Len(s) THEN <<s>>
             ELSE <<SubSeq(s, 1, i - 1)>> \o DiffLines(SubSeq(s, i + 1, Len(s)))

\* The two rules of the data model: (a) an added line with a secret-like
\* keyword, (b) a file-header line naming an env file.
RuleDrops(line) ==
    \/ /\ startswith(line, <<"+">>)
       /\ \E kw \in {KW_API_KEY, KW_APIKEY, KW_SECRET, KW_TOKEN} :
             contains(lower(line), kw)
    \/ /\ startswith(line, <<"-", "-", "-">>) \/ startswith(line, <<"+", "+", "+">>)
       /\ contains(lower(line), DOT_ENV)

RuleKeeps(line) == ~RuleDrops(line)

\* C5: the lines of the sanitized diff are the lines of the diff that neither
\* rule drops, in their order and with their content.
C5_SanitizeDropsExactlyRuleLines ==
    [][pc = "strip_sensitive_lines"
         => DiffLines(diff') = SelectSeq(DiffLines(diff), RuleKeeps)]_vars

Quotes == {DQ, SQ, LDQ, RDQ}

\* One quote character less at each end that has one.
StripOneLayer(s) ==
    LET a == IF s # <<>> /\ Head(s) \in Quotes THEN Tail(s) ELSE s
    IN  IF a # <<>> /\ a[Len(a)] \in Quotes THEN SubSeq(a, 1, Len(a) - 1) ELSE a

\* C7: the post-processed message is the model's (non-empty) text with its line breaks
\* collapsed into spaces, trimmed, one layer of surrounding straight or curly
\* quotes stripped, and then the suffix appended when the diff was capped.
C7_PostProcess ==
    [][(pc = "postprocess" /\ message # <<>>)
         => message' =
               LET q == StripOneLayer(strip(join(<<SP>>, splitlines(message))))
               IN  IF truncated THEN q \o TRUNCATED_SUFFIX ELSE q]_vars

\* C8: what call_gemini returns to main is never the empty string.
C8_NeverReturnsEmpty == pc = "postprocess" => message # <<>>

\* C9: once editor_edit has returned or raised, the temporary file it created
\* is gone; with no editor configured no file is created and the text comes
\* back unchanged.
C9_TempFileDeleted ==
    /\ pc \in {"finalize", "commit", "exited"} => tmp.state # "present"
    /\ ~truthy(editor) => tmp.state = "none"
    /\ (pc = "finalize" /\ ~truthy(editor)) => final_msg = message

====
